---- MODULE Spec2Model ----
(***************************************************************************)
(* Savings and loan ledger of the NFC cooperative application              *)
(* (src/src/database/db_manager.py, class DatabaseManager).                *)
(*                                                                         *)
(* The tables are modelled twice: the variables savings_accounts, loans,   *)
(* loan_repayments, transactions, members, stations and system_settings    *)
(* are what the one sqlite3 connection of DatabaseManager sees (its open    *)
(* transaction included); the variable committed is what a commit() has    *)
(* made durable.  Rows are kept in rowid order, so a row id is a position  *)
(* in a sequence.  current_module and station_rows are the state of the    *)
(* main window: the screen shown and the rows of the Stations table;       *)
(* fetched is the list the last get_transactions call returned.            *)
(*                                                                         *)
(* connections holds, for each further connection to the same database     *)
(* file, the ledger call it is in: the statement it has reached and the    *)
(* row its SELECT returned.  Such a connection reads the durable state;    *)
(* the table variables are then the view of the connection that holds the  *)
(* write lock.                                                             *)
(*                                                                         *)
(* Money columns are REAL.  They are modelled as exact quantities counted  *)
(* in 1/Kobo of a kobo (0.01 naira), fine enough that the percentage and   *)
(* the division by the duration done at disbursement are exact.            *)
(***************************************************************************)
EXTENDS Integers, Sequences, FiniteSets, TLC

VARIABLES savings_accounts, loans, loan_repayments, transactions,
          members, stations, system_settings,
          committed, failed_writes, result, clock,
          current_module, station_rows, fetched, connections

vars == <<savings_accounts, loans, loan_repayments, transactions,
          members, stations, system_settings,
          committed, failed_writes, result, clock,
          current_module, station_rows, fetched, connections>>

-----------------------------------------------------------------------------
(* Bounds of the model *)

\* rows of savings_accounts and of loans, and ledger calls that write
MaxAccounts == 1
MaxLoans == 1
MaxLedgerCalls == 3
\* the clock shows the seconds 0..MaxClock.  While loans holds one row at most,
\* a disbursement in a later second differs only in the number of that loan.
MaxClock == 0
\* rows of members, and the highest number add_station hands out
MaxMembers == 4
MaxStationNumber == 4
\* rows of the transaction log that get_transactions is called on
MaxLogRows == 3
\* members the migration copies from the old database
MaxLegacyMembers == 2
\* ledger calls each of two connections makes
MaxCallsPerConnection == 1

-----------------------------------------------------------------------------
(* Input domains *)

Percent == 100

\* durations offered to disburse_loan; 0 makes the division fail
Durations == {0, 1, 2}

DurationLcm == CHOOSE n \in 1..Percent :
                 /\ \A d \in Durations : d > 0 => n % d = 0
                 /\ \A k \in 1..(n - 1) : \E d \in Durations : d > 0 /\ k % d # 0

\* model units per kobo
Kobo == Percent * DurationLcm

\* text of numbers: a string is the sequence of its characters
DigitChars == <<"0", "1", "2", "3", "4", "5", "6", "7", "8", "9">>

DigitValue(c) == (CHOOSE i \in 1..Len(DigitChars) : DigitChars[i] = c) - 1

RECURSIVE str(_)
\* str(n) of a number n >= 0
str(n) ==
  IF n < Len(DigitChars)
    THEN <<DigitChars[n + 1]>>
    ELSE str(n \div Len(DigitChars)) \o <<DigitChars[(n % Len(DigitChars)) + 1]>>

RECURSIVE int(_)
\* int(s) of a non-empty string of digits
int(s) ==
  IF Len(s) = 1
    THEN DigitValue(s[1])
    ELSE Len(DigitChars) * int(SubSeq(s, 1, Len(s) - 1)) + DigitValue(s[Len(s)])

RECURSIVE ZeroPad(_, _)
\* the format spec 0<width>d applied to the digits s
ZeroPad(s, width) == IF Len(s) >= width THEN s ELSE ZeroPad(<<"0">> \o s, width)

\* member_id = f"NFC{next_num:04d}"
MemberId(next_num) == <<"N", "F", "C">> \o ZeroPad(str(next_num), 4)

\* station_id = f"{next_num:02d}"
StationId(next_num) == ZeroPad(str(next_num), 2)

\* member rows NFC0001 and NFC0002, and the one savings_types row
Members == {MemberId(1), MemberId(2)}
SavingsTypeIds == {1}

\* arguments the callers pass: DatabaseManager validates none of them, so the
\* non-positive ones are inputs too.  Principals 0.00, 0.12 and 1.00 naira at
\* 10 percent; amounts -0.55, 0.00, 0.55 and 2.00 naira; ids of rows that
\* exist and of rows that do not; transaction_data / payment_data a dict or None.
SavingsTypeInputs == {1, 2}
Principals == {0, 12 * Kobo, 100 * Kobo}
Rates == {10}
Amounts == {-55 * Kobo, 0, 55 * Kobo, 200 * Kobo}
AccountIdInputs == 1..MaxAccounts
LoanIdInputs == 1..(MaxLoans + 1)
DataInputs == {"dict", "None"}

Max(a, b) == IF a >= b THEN a ELSE b

-----------------------------------------------------------------------------
(* The store *)

\* column defaults of savings_accounts and loans (schema.sql)
DefaultMoney == 0

\* SELECT * FROM members WHERE member_id = ?
get_member(member_id) ==
  LET rows == SelectSeq(members, LAMBDA m : m.member_id = member_id)
  IN  IF Len(rows) > 0 THEN rows[1] ELSE "None"

\* members.station_id of the member rows
MemberStation(member_id) == get_member(member_id).station_id

Tables == [savings_accounts |-> savings_accounts, loans |-> loans,
           loan_repayments |-> loan_repayments, transactions |-> transactions,
           members |-> members, stations |-> stations,
           system_settings |-> system_settings]

TablesNext == [savings_accounts |-> savings_accounts', loans |-> loans',
               loan_repayments |-> loan_repayments', transactions |-> transactions',
               members |-> members', stations |-> stations',
               system_settings |-> system_settings']

\* the tables of the member and station registry, and the main window
registry == <<members, stations, system_settings>>
window == <<current_module, station_rows>>

\* conn.commit(): the open transaction becomes durable
commit == /\ committed' = TablesNext
          /\ failed_writes' = failed_writes

\* an exception leaves the method before commit(); nobody calls rollback().
\* failed_writes counts the calls that raised after they had written.
NoCommit(wrote) ==
  /\ committed' = committed
  /\ failed_writes' = IF wrote THEN failed_writes + 1 ELSE failed_writes

\* ledger calls so far that wrote: one transactions row each, or a failure after a write
LedgerCalls == Len(transactions) + failed_writes

ResultAlwaysOk(op, outcome, id, amount) ==
  [op |-> op, outcome |-> "ok", id |-> id, amount |-> amount]

\* what the caller gets back: the returned id, or the exception that was raised
Result(op, outcome, id, amount) ==
  [op |-> op, outcome |-> outcome, id |-> id, amount |-> amount]

get_station_statsNoMembers(station_id, member_rows) ==
  [total_members |-> 0]

\* SELECT is_active FROM members WHERE station_id = ?: total_members = len(members)
get_station_stats(station_id, member_rows) ==
  [total_members |->
     Cardinality({i \in 1..Len(member_rows) : member_rows[i].station_id = station_id})]

\* populate_table: one row per station, with the statistics bound to its buttons
populate_table(station_ids, member_rows) ==
  [s \in station_ids |-> get_station_stats(s, member_rows)]

\* an optional argument: << >> for None, <<v>> for the value v
None == << >>

\* the connections of two processes opened on the same database file
Connections == {"a", "b"}

\* no connection is in a call
NoCalls ==
  [c \in Connections |-> [pc |-> "idle", op |-> "", id |-> 0, amount |-> 0,
                          row |-> << >>, calls |-> 0]]

\* no get_transactions call has been made
NothingFetched ==
  [member_id |-> None, start_date |-> None, end_date |-> None, rows |-> << >>]

\* a database with members NFC0001 and NFC0002 in stations 01 and 02; the main
\* window opens on the dashboard, its Stations table filled by the constructor
InitWith(settings) ==
  /\ savings_accounts = << >>
  /\ loans = << >>
  /\ loan_repayments = << >>
  /\ transactions = << >>
  /\ members = <<[member_id |-> MemberId(1), station_id |-> StationId(1)],
                 [member_id |-> MemberId(2), station_id |-> StationId(2)]>>
  /\ stations = {StationId(1), StationId(2)}
  /\ system_settings = settings
  /\ committed = [savings_accounts |-> << >>, loans |-> << >>,
                  loan_repayments |-> << >>, transactions |-> << >>,
                  members |-> members, stations |-> stations,
                  system_settings |-> system_settings]
  /\ failed_writes = 0
  /\ result = Result("connect", "ok", 0, 0)
  /\ clock = 0
  /\ current_module = "dashboard"
  /\ station_rows = populate_table(stations, members)
  /\ fetched = NothingFetched
  /\ connections = NoCalls

Init ==
  InitWith([k \in {"next_member_number", "next_station_number"} |-> str(3)])

-----------------------------------------------------------------------------
(* Transactions *)

\* transaction_data.get('transaction_date', datetime.now().date().isoformat()):
\* dates are ISO texts, compared as texts; a date is modelled by its day
\* number, the empty text by 0.  The ledger calls pass no transaction_date.
Today == 2

TransactionRowWrongDirection(transaction_id, member_id, transaction_type, account_type, account_id, amount, is_credit) ==
  [transaction_id |-> transaction_id, member_id |-> member_id,
   station_id |-> get_member(member_id).station_id,
   transaction_type |-> transaction_type, account_type |-> account_type,
   account_id |-> account_id, amount |-> amount,
   is_credit |-> IF is_credit THEN 0 ELSE 1,
   transaction_date |-> Today]

\* the row record_transaction inserts
TransactionRow(transaction_id, member_id, transaction_type, account_type, account_id, amount, is_credit) ==
  [transaction_id |-> transaction_id, member_id |-> member_id,
   station_id |-> get_member(member_id).station_id,
   transaction_type |-> transaction_type, account_type |-> account_type,
   account_id |-> account_id, amount |-> amount,
   is_credit |-> IF is_credit THEN 1 ELSE 0,
   transaction_date |-> Today]

\* record_transaction raises when transaction_data has no .get
RecordTransactionRaises(transaction_data) == transaction_data = "None"

record_transactionOverwriting(member_id, transaction_type, account_type, account_id, amount, is_credit) ==
  transactions' = [i \in 1..Max(1, Len(transactions)) |->
      TransactionRow(i, member_id, transaction_type,
                     account_type, account_id, amount, is_credit)]

\* INSERT INTO transactions
record_transaction(member_id, transaction_type, account_type, account_id, amount, is_credit) ==
  transactions' = Append(transactions,
      TransactionRow(Len(transactions) + 1, member_id, transaction_type,
                     account_type, account_id, amount, is_credit))

-----------------------------------------------------------------------------
(* Savings *)

\* UNIQUE account_number: "<member_id>-<type_code[:4]>"
AccountNumberTaken(member_id, savings_type_id) ==
  \E i \in 1..Len(savings_accounts) :
     /\ savings_accounts[i].member_id = member_id
     /\ savings_accounts[i].savings_type_id = savings_type_id

NewSavingsAccount(account_id, member_id, savings_type_id) ==
  [account_id |-> account_id, member_id |-> member_id,
   savings_type_id |-> savings_type_id,
   current_balance |-> DefaultMoney, total_deposits |-> DefaultMoney,
   total_withdrawals |-> DefaultMoney, total_interest_earned |-> DefaultMoney]

create_savings_account(member_id, savings_type_id) ==
  /\ UNCHANGED <<loans, loan_repayments, transactions, registry, clock>>
  /\ IF savings_type_id \notin SavingsTypeIds
       THEN \* stype is None: stype['type_code'] raises
            /\ UNCHANGED savings_accounts
            /\ NoCommit(FALSE)
            /\ result' = Result("create_savings_account", "TypeError", 0, 0)
       ELSE IF AccountNumberTaken(member_id, savings_type_id)
       THEN /\ UNCHANGED savings_accounts
            /\ NoCommit(FALSE)
            /\ result' = Result("create_savings_account", "IntegrityError", 0, 0)
       ELSE /\ Len(savings_accounts) < MaxAccounts
            /\ savings_accounts' = Append(savings_accounts,
                 NewSavingsAccount(Len(savings_accounts) + 1, member_id, savings_type_id))
            /\ commit
            /\ result' = Result("create_savings_account", "ok",
                                Len(savings_accounts) + 1, 0)

DepositUpdateBalanceOnly(account, amount) ==
  [account EXCEPT !.current_balance = @ + amount]

\* UPDATE savings_accounts SET current_balance = current_balance + ?,
\*                             total_deposits = total_deposits + ?
DepositUpdate(account, amount) ==
  [account EXCEPT !.current_balance = @ + amount,
                  !.total_deposits = @ + amount]

deposit_to_savings(account_id, amount, transaction_data) ==
  /\ UNCHANGED <<loans, loan_repayments, registry, clock>>
  /\ IF account_id \notin 1..Len(savings_accounts)
       THEN \* the UPDATE matches no row; account is None: account['member_id'] raises
            /\ UNCHANGED <<savings_accounts, transactions>>
            /\ NoCommit(FALSE)
            /\ result' = Result("deposit_to_savings", "TypeError", account_id, amount)
       ELSE /\ savings_accounts' = [savings_accounts EXCEPT
                 ![account_id] = DepositUpdate(@, amount)]
            /\ IF RecordTransactionRaises(transaction_data)
                 THEN /\ LedgerCalls < MaxLedgerCalls
                      /\ UNCHANGED transactions
                      /\ NoCommit(TRUE)
                      /\ result' = Result("deposit_to_savings", "AttributeError",
                                          account_id, amount)
                 ELSE /\ LedgerCalls < MaxLedgerCalls
                      /\ record_transaction(savings_accounts[account_id].member_id,
                           "Savings Deposit", "Savings", str(account_id), amount, TRUE)
                      /\ commit
                      /\ result' = Result("deposit_to_savings", "ok", account_id, amount)

InsufficientBalanceOffByOne(account, amount) == account.current_balance <= amount

\* if account['current_balance'] < amount: raise ValueError("Insufficient balance")
InsufficientBalance(account, amount) == account.current_balance < amount

WithdrawUpdateBalanceOnly(account, amount) ==
  [account EXCEPT !.current_balance = @ - amount]

\* UPDATE savings_accounts SET current_balance = current_balance - ?,
\*                             total_withdrawals = total_withdrawals + ?
WithdrawUpdate(account, amount) ==
  [account EXCEPT !.current_balance = @ - amount,
                  !.total_withdrawals = @ + amount]

withdraw_from_savings(account_id, amount, transaction_data) ==
  /\ UNCHANGED <<loans, loan_repayments, registry, clock>>
  /\ IF account_id \notin 1..Len(savings_accounts)
       THEN \* account is None: account['current_balance'] raises
            /\ UNCHANGED <<savings_accounts, transactions>>
            /\ NoCommit(FALSE)
            /\ result' = Result("withdraw_from_savings", "TypeError", account_id, amount)
       ELSE IF InsufficientBalance(savings_accounts[account_id], amount)
       THEN /\ UNCHANGED <<savings_accounts, transactions>>
            /\ NoCommit(FALSE)
            /\ result' = Result("withdraw_from_savings", "ValueError: Insufficient balance",
                                account_id, amount)
       ELSE /\ savings_accounts' = [savings_accounts EXCEPT
                 ![account_id] = WithdrawUpdate(@, amount)]
            /\ IF RecordTransactionRaises(transaction_data)
                 THEN /\ LedgerCalls < MaxLedgerCalls
                      /\ UNCHANGED transactions
                      /\ NoCommit(TRUE)
                      /\ result' = Result("withdraw_from_savings", "AttributeError",
                                          account_id, amount)
                 ELSE /\ LedgerCalls < MaxLedgerCalls
                      /\ record_transaction(savings_accounts[account_id].member_id,
                           "Savings Withdrawal", "Savings", str(account_id), amount, FALSE)
                      /\ commit
                      /\ result' = Result("withdraw_from_savings", "ok", account_id, amount)

-----------------------------------------------------------------------------
(* Loans *)

\* amounts are rounded to whole kobo (2 decimals), halves to even
Round2(x) ==
  LET q == x \div Kobo
      r == x % Kobo
  IN  IF 2 * r < Kobo THEN q * Kobo
      ELSE IF 2 * r > Kobo THEN (q + 1) * Kobo
      ELSE IF q % 2 = 0 THEN q * Kobo ELSE (q + 1) * Kobo

InterestAmountRounded(principal, interest_rate) ==
  Round2((principal * interest_rate) \div Percent)

\* interest_amount = principal * (interest_rate / 100)
InterestAmount(principal, interest_rate) ==
  (principal * interest_rate) \div Percent

\* total_amount = principal + interest_amount
TotalAmount(principal, interest_amount) == principal + interest_amount

\* monthly_installment = total_amount / duration
MonthlyInstallment(total_amount, duration) == total_amount \div duration

\* loan_number = f"L-{member_id}-{datetime.now().strftime('%Y%m%d%H%M%S')}":
\* the member and the clock second, nothing else
LoanNumber(member_id, now) == <<member_id, now>>

\* loans.loan_number is unique: the INSERT of a number already there raises
LoanNumberTaken(loan_number) ==
  \E i \in 1..Len(loans) : loans[i].loan_number = loan_number

NewLoan(loan_id, member_id, principal, interest_rate, duration, now) ==
  LET interest_amount == InterestAmount(principal, interest_rate)
      total_amount == TotalAmount(principal, interest_amount)
  IN  [loan_id |-> loan_id, member_id |-> member_id,
       loan_number |-> LoanNumber(member_id, now),
       station_id |-> MemberStation(member_id),
       principal_amount |-> principal, interest_rate |-> interest_rate,
       interest_amount |-> interest_amount, total_amount |-> total_amount,
       monthly_installment |-> MonthlyInstallment(total_amount, duration),
       duration_months |-> duration,
       amount_paid |-> DefaultMoney,
       balance_outstanding |-> total_amount,
       status |-> "Active"]

\* now is the second datetime.now() returns; the clock never runs backwards
disburse_loan(member_id, principal, interest_rate, duration, now) ==
  /\ UNCHANGED <<savings_accounts, loan_repayments, registry>>
  /\ IF duration = 0
       THEN \* total_amount / duration raises before the clock is read
            /\ UNCHANGED <<loans, transactions, clock>>
            /\ NoCommit(FALSE)
            /\ result' = Result("disburse_loan", "ZeroDivisionError", 0, principal)
       ELSE /\ clock' = now
            /\ IF LoanNumberTaken(LoanNumber(member_id, now))
                 THEN \* the INSERT INTO loans fails, nothing is written
                      /\ UNCHANGED <<loans, transactions>>
                      /\ NoCommit(FALSE)
                      /\ result' = Result("disburse_loan", "IntegrityError", 0, principal)
                 ELSE /\ Len(loans) < MaxLoans
                      /\ LedgerCalls < MaxLedgerCalls
                      /\ loans' = Append(loans,
                           NewLoan(Len(loans) + 1, member_id, principal, interest_rate,
                                   duration, now))
                      /\ record_transaction(member_id, "Loan Disbursement", "Loan",
                                            str(Len(loans) + 1), principal, TRUE)
                      /\ commit
                      /\ result' = Result("disburse_loan", "ok", Len(loans) + 1, principal)

BalanceAfterUnclamped(balance_before, amount) == balance_before - amount

\* balance_after = max(0, balance_before - amount)
BalanceAfter(balance_before, amount) == Max(0, balance_before - amount)

NewAmountPaidCapped(loan, amount) ==
  IF amount > loan.balance_outstanding
    THEN loan.amount_paid + loan.balance_outstanding
    ELSE loan.amount_paid + amount

\* new_amount_paid = loan['amount_paid'] + amount
NewAmountPaid(loan, amount) == loan.amount_paid + amount

\* new_status = 'Completed' if balance_after <= 0 else 'Active'
NewStatus(balance_after) == IF balance_after <= 0 THEN "Completed" ELSE "Active"

RepaymentRowBeforeFromTotal(loan, amount) ==
  [repayment_id |-> Len(loan_repayments) + 1,
   loan_id |-> loan.loan_id, member_id |-> loan.member_id,
   expected_amount |-> loan.monthly_installment, actual_amount |-> amount,
   balance_before |-> loan.total_amount,
   balance_after |-> BalanceAfter(loan.balance_outstanding, amount)]

\* the row INSERT INTO loan_repayments adds
RepaymentRow(loan, amount) ==
  [repayment_id |-> Len(loan_repayments) + 1,
   loan_id |-> loan.loan_id, member_id |-> loan.member_id,
   expected_amount |-> loan.monthly_installment, actual_amount |-> amount,
   balance_before |-> loan.balance_outstanding,
   balance_after |-> BalanceAfter(loan.balance_outstanding, amount)]

UpdateLoanRecomputing(loan, amount) ==
  LET balance_after == BalanceAfter(loan.balance_outstanding, amount)
  IN  [loan EXCEPT !.amount_paid = NewAmountPaid(loan, amount),
                   !.balance_outstanding = balance_after,
                   !.status = NewStatus(balance_after),
                   !.monthly_installment = balance_after]

\* UPDATE loans SET amount_paid = ?, balance_outstanding = ?, status = ?
UpdateLoan(loan, amount) ==
  LET balance_after == BalanceAfter(loan.balance_outstanding, amount)
  IN  [loan EXCEPT !.amount_paid = NewAmountPaid(loan, amount),
                   !.balance_outstanding = balance_after,
                   !.status = NewStatus(balance_after)]

record_loan_repayment(loan_id, amount, payment_data) ==
  /\ UNCHANGED <<savings_accounts, registry, clock>>
  /\ IF loan_id \notin 1..Len(loans)
       THEN /\ UNCHANGED <<loans, loan_repayments, transactions>>
            /\ NoCommit(FALSE)
            /\ result' = Result("record_loan_repayment", "ValueError: Loan not found",
                                loan_id, amount)
       ELSE IF payment_data = "None"
       THEN \* payment_data.get raises while the INSERT's parameters are built
            /\ UNCHANGED <<loans, loan_repayments, transactions>>
            /\ NoCommit(FALSE)
            /\ result' = Result("record_loan_repayment", "AttributeError",
                                loan_id, amount)
       ELSE LET loan == loans[loan_id]
            IN  /\ LedgerCalls < MaxLedgerCalls
                /\ loan_repayments' = Append(loan_repayments, RepaymentRow(loan, amount))
                /\ loans' = [loans EXCEPT ![loan_id] = UpdateLoan(loan, amount)]
                /\ record_transaction(loan.member_id, "Loan Repayment", "Loan",
                                      str(loan_id), amount, FALSE)
                /\ commit
                /\ result' = Result("record_loan_repayment", "ok", loan_id, amount)

-----------------------------------------------------------------------------
(* The database manager under one caller *)

CreateSavingsAccount ==
  /\ UNCHANGED <<window, fetched, connections>>
  /\ \E m \in Members, t \in SavingsTypeInputs : create_savings_account(m, t)

DepositToSavings ==
  /\ UNCHANGED <<window, fetched, connections>>
  /\ \E a \in AccountIdInputs, x \in Amounts, d \in DataInputs :
        deposit_to_savings(a, x, d)

WithdrawFromSavings ==
  /\ UNCHANGED <<window, fetched, connections>>
  /\ \E a \in AccountIdInputs, x \in Amounts, d \in DataInputs :
        withdraw_from_savings(a, x, d)

DisburseLoan ==
  /\ UNCHANGED <<window, fetched, connections>>
  /\ \E m \in Members, p \in Principals, r \in Rates, d \in Durations,
        now \in clock..MaxClock :
        disburse_loan(m, p, r, d, now)

RecordLoanRepayment ==
  /\ UNCHANGED <<window, fetched, connections>>
  /\ \E l \in LoanIdInputs, x \in Amounts, d \in DataInputs :
        record_loan_repayment(l, x, d)

Next ==
  \/ CreateSavingsAccount
  \/ DepositToSavings
  \/ WithdrawFromSavings
  \/ DisburseLoan
  \/ RecordLoanRepayment

Spec == Init /\ [][Next]_vars

\* the savings ledger alone
NextSavings ==
  \/ CreateSavingsAccount
  \/ DepositToSavings
  \/ WithdrawFromSavings

SpecSavings == Init /\ [][NextSavings]_vars

\* the loan ledger alone
NextLoans ==
  \/ DisburseLoan
  \/ RecordLoanRepayment

SpecLoans == Init /\ [][NextLoans]_vars

-----------------------------------------------------------------------------
(* Members, stations and the counters that number them *)

ledger == <<savings_accounts, loans, loan_repayments, transactions>>

get_settingOrDefault(key) ==
  IF key \in DOMAIN system_settings THEN <<system_settings[key]>> ELSE <<str(9)>>

\* result['setting_value'] if result else None: the value in a sequence of
\* one, the empty sequence for None
get_setting(key) ==
  IF key \in DOMAIN system_settings THEN <<system_settings[key]>> ELSE << >>

\* int(None) raises TypeError
IntRaises(setting) == Len(setting) = 0

\* UPDATE system_settings SET setting_value = ? WHERE setting_key = ?
update_setting(key, value) ==
  IF key \in DOMAIN system_settings
    THEN [system_settings EXCEPT ![key] = value]
    ELSE system_settings

NextNumberSame(next_num) == next_num

\* next_num + 1, the number written back
NextNumber(next_num) == next_num + 1

\* members.member_id and stations.station_id are unique
MemberIdTaken(member_id) == \E i \in 1..Len(members) : members[i].member_id = member_id
StationIdTaken(station_id) == station_id \in stations

\* add_member(member_data, created_by); member_data is a dict, with or without
\* the key 'station_id'
add_member(member_data) ==
  /\ UNCHANGED <<ledger, stations, clock>>
  /\ LET setting == get_setting("next_member_number")
     IN  IF IntRaises(setting)
           THEN /\ UNCHANGED <<members, system_settings>>
                /\ NoCommit(FALSE)
                /\ result' = Result("add_member", "TypeError", 0, 0)
           ELSE IF "station_id" \notin DOMAIN member_data
           THEN \* member_data['station_id'] raises before the INSERT
                /\ UNCHANGED <<members, system_settings>>
                /\ NoCommit(FALSE)
                /\ result' = Result("add_member", "KeyError", 0, 0)
           ELSE LET next_num == int(setting[1])
                    member_id == MemberId(next_num)
                IN  IF MemberIdTaken(member_id)
                      THEN \* the INSERT INTO members fails, nothing is written
                           /\ UNCHANGED <<members, system_settings>>
                           /\ NoCommit(FALSE)
                           /\ result' = Result("add_member", "IntegrityError", 0, 0)
                      ELSE /\ Len(members) < MaxMembers
                           /\ members' = Append(members,
                                [member_id |-> member_id,
                                 station_id |-> member_data.station_id])
                           /\ system_settings' =
                                update_setting("next_member_number",
                                               str(NextNumber(next_num)))
                           /\ commit
                           /\ result' = Result("add_member", "ok", member_id, 0)

\* add_station(city)
add_station ==
  /\ UNCHANGED <<ledger, members, clock>>
  /\ LET setting == get_setting("next_station_number")
     IN  IF IntRaises(setting)
           THEN /\ UNCHANGED <<stations, system_settings>>
                /\ NoCommit(FALSE)
                /\ result' = Result("add_station", "TypeError", 0, 0)
           ELSE LET next_num == int(setting[1])
                    station_id == StationId(next_num)
                IN  IF StationIdTaken(station_id)
                      THEN \* the INSERT INTO stations fails, nothing is written
                           /\ UNCHANGED <<stations, system_settings>>
                           /\ NoCommit(FALSE)
                           /\ result' = Result("add_station", "IntegrityError", 0, 0)
                      ELSE /\ next_num <= MaxStationNumber
                           /\ stations' = stations \cup {station_id}
                           /\ system_settings' =
                                update_setting("next_station_number",
                                               str(NextNumber(next_num)))
                           /\ commit
                           /\ result' = Result("add_station", "ok", station_id, 0)

-----------------------------------------------------------------------------
(* The main window: Members and Stations screens *)

Modules == {"dashboard", "members", "stations"}

\* StationsModule.refresh on the tables as they are after the step
refresh ==
  station_rows' = populate_table(stations', members')

\* switch_module(index): show the module and refresh it
switch_module(index) ==
  /\ UNCHANGED <<ledger, registry, committed, failed_writes, clock>>
  /\ current_module' = index
  /\ IF index = "stations" THEN refresh ELSE UNCHANGED station_rows
  /\ result' = Result("switch_module", "ok", 0, 0)

\* F5 on the Stations screen
refresh_current_module ==
  /\ current_module = "stations"
  /\ UNCHANGED <<ledger, registry, committed, failed_writes, clock, current_module>>
  /\ refresh
  /\ result' = Result("refresh_current_module", "ok", 0, 0)

\* the Delete button of a row: station and stats are the values bound when
\* the row was filled; reply and final_reply are the two confirmations
delete_station(station, stats, reply, final_reply) ==
  /\ UNCHANGED <<ledger, members, system_settings, clock, current_module>>
  /\ committed' = committed
  /\ failed_writes' = failed_writes
  /\ IF stats.total_members > 0
       THEN /\ UNCHANGED <<stations, station_rows>>
            /\ result' = Result("delete_station", "has members", station, 0)
       ELSE IF ~(reply /\ final_reply)
              THEN /\ UNCHANGED <<stations, station_rows>>
                   /\ result' = Result("delete_station", "cancelled", station, 0)
              ELSE \* DELETE FROM stations WHERE station_id = ?, not committed
                   /\ stations' = stations \ {station}
                   /\ refresh
                   /\ result' = Result("delete_station", "ok", station, 0)

SwitchModule ==
  /\ UNCHANGED <<fetched, connections>>
  /\ \E index \in Modules : switch_module(index)

RefreshCurrentModule ==
  /\ UNCHANGED <<fetched, connections>>
  /\ refresh_current_module

\* the dicts passed as member_data: the station is one of the stations there
\* are, or the key is missing
MemberDataInputs ==
  [first_name : {"A"}] \cup [first_name : {"A"}, station_id : stations]

\* Add Member on the Members screen
AddMember ==
  /\ current_module = "members"
  /\ UNCHANGED <<window, fetched, connections>>
  /\ \E member_data \in MemberDataInputs : add_member(member_data)

AddStation ==
  /\ UNCHANGED <<window, fetched, connections>>
  /\ add_station

DeleteStation ==
  /\ current_module = "stations"
  /\ UNCHANGED <<fetched, connections>>
  /\ \E station \in DOMAIN station_rows, reply \in BOOLEAN, final_reply \in BOOLEAN :
        delete_station(station, station_rows[station], reply, final_reply)

\* databases the application can be opened on: each counter row missing,
\* behind the highest number in use, or ahead of it
InitRegistry ==
  \E keys \in SUBSET {"next_member_number", "next_station_number"} :
     \E settings \in [keys -> {str(2), str(3)}] : InitWith(settings)

NextRegistry ==
  \/ SwitchModule
  \/ RefreshCurrentModule
  \/ AddMember
  \/ AddStation
  \/ DeleteStation

SpecRegistry == InitRegistry /\ [][NextRegistry]_vars

-----------------------------------------------------------------------------
(* Reading the transaction log *)

\* transaction dates in the log, and the arguments of get_transactions: None,
\* the empty text, or a value
Dates == {Today - 1, Today}
MemberIdFilters == {None, << << >> >>} \cup {<<m>> : m \in Members}
DateFilters == {None, <<0>>} \cup {<<d>> : d \in Dates}

\* "if member_id:" and "if start_date:": None and the empty text are false
TruthyText(arg) == Len(arg) = 1 /\ Len(arg[1]) > 0
TruthyDate(arg) == Len(arg) = 1 /\ arg[1] # 0

\* WHERE 1=1 [AND member_id = ?] [AND transaction_date >= ?] [AND transaction_date <= ?]
Where(row, member_id, start_date, end_date) ==
  /\ TruthyText(member_id) => row.member_id = member_id[1]
  /\ TruthyDate(start_date) => row.transaction_date >= start_date[1]
  /\ TruthyDate(end_date) => row.transaction_date <= end_date[1]

OrderedBeforeByIdOnly(r, q) == r.transaction_id > q.transaction_id

\* ORDER BY transaction_date DESC, transaction_id DESC
OrderedBefore(r, q) ==
  \/ r.transaction_date > q.transaction_date
  \/ r.transaction_date = q.transaction_date /\ r.transaction_id > q.transaction_id

RECURSIVE OrderBy(_)
\* the rows of a set in the order of ORDER BY
OrderBy(rows) ==
  IF rows = {}
    THEN << >>
    ELSE LET first == CHOOSE r \in rows : \A q \in rows \ {r} : OrderedBefore(r, q)
         IN  <<first>> \o OrderBy(rows \ {first})

get_transactions(member_id, start_date, end_date) ==
  /\ fetched' = [member_id |-> member_id, start_date |-> start_date,
                 end_date |-> end_date,
                 rows |-> OrderBy({transactions[i] : i \in
                            {j \in 1..Len(transactions) :
                               Where(transactions[j], member_id, start_date, end_date)}})]
  /\ result' = Result("get_transactions", "ok", 0, 0)
  /\ UNCHANGED <<ledger, registry, committed, failed_writes, clock, window>>

GetTransactions ==
  /\ UNCHANGED connections
  /\ \E member_id \in MemberIdFilters, start_date \in DateFilters, end_date \in DateFilters :
        get_transactions(member_id, start_date, end_date)

\* the row a ledger call with transaction_date d in its transaction_data adds
LogRow(transaction_id, member_id, d) ==
  [TransactionRow(transaction_id, member_id, "Deposit", "Savings", str(1), 55 * Kobo, TRUE)
     EXCEPT !.transaction_date = d]

\* a database whose log holds up to MaxLogRows rows of the two members
InitQuery ==
  /\ savings_accounts = << >>
  /\ loans = << >>
  /\ loan_repayments = << >>
  /\ members = <<[member_id |-> MemberId(1), station_id |-> StationId(1)],
                 [member_id |-> MemberId(2), station_id |-> StationId(2)]>>
  /\ stations = {StationId(1), StationId(2)}
  /\ system_settings = [k \in {"next_member_number", "next_station_number"} |-> str(3)]
  /\ \E n \in 0..MaxLogRows :
        \E ms \in [1..n -> Members], ds \in [1..n -> Dates] :
           transactions = [i \in 1..n |-> LogRow(i, ms[i], ds[i])]
  /\ committed = Tables
  /\ failed_writes = 0
  /\ result = Result("connect", "ok", 0, 0)
  /\ clock = 0
  /\ current_module = "dashboard"
  /\ station_rows = populate_table(stations, members)
  /\ fetched = NothingFetched
  /\ connections = NoCalls

NextQuery == GetTransactions

SpecQuery == InitQuery /\ [][NextQuery]_vars

-----------------------------------------------------------------------------
(* The migration's last step, and the application on the migrated database *)

\* IDs of the old database: member IDs with gaps, station IDs with and
\* without a leading zero
LegacyMemberIds == {MemberId(1), MemberId(3)}
LegacyStationIds == {StationId(1), <<"3">>}

\* the counter rows the schema creates
SchemaSettings == [k \in {"next_member_number", "next_station_number"} |-> str(1)]

\* SUBSTR(X, Y): the characters of X from the Y-th on
SUBSTR(X, Y) == SubSeq(X, Y, Len(X))

RECURSIVE DigitPrefix(_)
\* the longest prefix of s that is made of digits
DigitPrefix(s) ==
  IF s = << >> \/ ~(\E i \in 1..Len(DigitChars) : DigitChars[i] = s[1])
    THEN << >>
    ELSE <<s[1]>> \o DigitPrefix(Tail(s))

\* CAST(s AS INTEGER) of a text: the number its leading digits spell, 0 when
\* it has none
CastInteger(s) == IF DigitPrefix(s) = << >> THEN 0 ELSE int(DigitPrefix(s))

\* result['max_num'] if result['max_num'] else 0, of SELECT MAX(...)
MaxNum(numbers) ==
  IF numbers = {} THEN 0 ELSE CHOOSE m \in numbers : \A n \in numbers : n <= m

MaxMemberNumByCount(member_rows) == Len(member_rows)

\* SELECT MAX(CAST(SUBSTR(member_id, 4) AS INTEGER)) FROM members
MaxMemberNum(member_rows) ==
  MaxNum({CastInteger(SUBSTR(member_rows[i].member_id, 4)) : i \in 1..Len(member_rows)})

\* SELECT MAX(CAST(station_id AS INTEGER)) FROM stations
MaxStationNum(station_ids) == MaxNum({CastInteger(id) : id \in station_ids})

update_system_settings ==
  /\ UNCHANGED <<ledger, members, stations, clock>>
  /\ system_settings' =
       [k \in DOMAIN system_settings |->
          IF k = "next_member_number" THEN str(MaxMemberNum(members) + 1)
          ELSE IF k = "next_station_number" THEN str(MaxStationNum(stations) + 1)
          ELSE system_settings[k]]
  /\ commit
  /\ result' = Result("update_system_settings", "ok", 0, 0)

\* run_migration: "System Settings" is the step after "Users"
UpdateSystemSettings ==
  /\ result.op = "migrate_users"
  /\ UNCHANGED <<window, fetched, connections>>
  /\ update_system_settings

\* the new database when the step starts: the schema's counters, the stations
\* and up to MaxLegacyMembers members of the old database
InitMigration ==
  /\ savings_accounts = << >>
  /\ loans = << >>
  /\ loan_repayments = << >>
  /\ transactions = << >>
  /\ \E n \in 0..MaxLegacyMembers :
        \E ids \in [1..n -> LegacyMemberIds] :
           /\ \A i, j \in 1..n : i < j => ids[i] # ids[j]
           /\ members = [i \in 1..n |-> [member_id |-> ids[i], station_id |-> StationId(1)]]
  /\ stations \in SUBSET LegacyStationIds
  /\ system_settings = SchemaSettings
  /\ committed = Tables
  /\ failed_writes = 0
  /\ result = Result("migrate_users", "ok", 0, 0)
  /\ clock = 0
  /\ current_module = "dashboard"
  /\ station_rows = populate_table(stations, members)
  /\ fetched = NothingFetched
  /\ connections = NoCalls

\* the application is opened on the new database once the migration is over
NextMigration ==
  \/ UpdateSystemSettings
  \/ result.op # "migrate_users" /\ SwitchModule
  \/ result.op # "migrate_users" /\ RefreshCurrentModule
  \/ result.op # "migrate_users" /\ AddMember
  \/ result.op # "migrate_users" /\ AddStation
  \/ result.op # "migrate_users" /\ DeleteStation

SpecMigration == InitMigration /\ [][NextMigration]_vars

-----------------------------------------------------------------------------
(* Two connections to one database file *)

\* sqlite3 opens a transaction before the first INSERT or UPDATE of a call
\* and not before a SELECT: a SELECT of a connection returns the durable row,
\* the first write takes the write lock of the file, commit() releases it.
\* A connection that finds the lock taken waits; when the wait lasts longer
\* than the timeout of sqlite3.connect, the statement raises OperationalError.

ConcurrentAmounts == {55 * Kobo, 200 * Kobo}

\* another connection has written and not yet committed
LockedByOther(c) == \E o \in Connections \ {c} : connections[o].pc = "written"

CanCall(c) ==
  /\ connections[c].pc \in {"idle", "returned", "raised"}
  /\ connections[c].calls < MaxCallsPerConnection

Returns(c, pc, op, id, amount, row) ==
  connections' = [connections EXCEPT ![c] =
     [pc |-> pc, op |-> op, id |-> id, amount |-> amount, row |-> row,
      calls |-> IF connections[c].pc \in {"idle", "returned", "raised"}
                  THEN @.calls + 1 ELSE @.calls]]

\* record_loan_repayment up to its INSERT: loan = self.fetchone(...)
RepaymentSelect(c, loan_id, amount) ==
  /\ CanCall(c)
  /\ UNCHANGED <<ledger, registry, committed, failed_writes, clock, window, fetched>>
  /\ IF loan_id \notin 1..Len(committed.loans)
       THEN /\ Returns(c, "raised", "record_loan_repayment", loan_id, amount, << >>)
            /\ result' = Result("record_loan_repayment", "ValueError: Loan not found",
                                loan_id, amount)
       ELSE /\ Returns(c, "selected", "record_loan_repayment", loan_id, amount,
                       committed.loans[loan_id])
            /\ UNCHANGED result

\* the three columns UPDATE loans sets, computed from the loan row read before
UpdateLoanColumns(current, loan, amount) ==
  [current EXCEPT !.amount_paid = UpdateLoan(loan, amount).amount_paid,
                  !.balance_outstanding = UpdateLoan(loan, amount).balance_outstanding,
                  !.status = UpdateLoan(loan, amount).status]

\* record_loan_repayment from its INSERT INTO loan_repayments to the INSERT
\* INTO transactions
RepaymentWrite(c) ==
  /\ connections[c].pc = "selected"
  /\ connections[c].op = "record_loan_repayment"
  /\ ~LockedByOther(c)
  /\ UNCHANGED <<savings_accounts, registry, committed, failed_writes, clock, window,
                 fetched, result>>
  /\ LET loan == connections[c].row
         amount == connections[c].amount
     IN  /\ loan_repayments' = Append(loan_repayments, RepaymentRow(loan, amount))
         /\ loans' = [loans EXCEPT ![loan.loan_id] = UpdateLoanColumns(@, loan, amount)]
         /\ record_transaction(loan.member_id, "Loan Repayment", "Loan",
                               str(loan.loan_id), amount, FALSE)
         /\ Returns(c, "written", "record_loan_repayment", loan.loan_id, amount, loan)

\* withdraw_from_savings up to its UPDATE: the balance check
WithdrawSelect(c, account_id, amount) ==
  /\ CanCall(c)
  /\ UNCHANGED <<ledger, registry, committed, failed_writes, clock, window, fetched>>
  /\ IF account_id \notin 1..Len(committed.savings_accounts)
       THEN /\ Returns(c, "raised", "withdraw_from_savings", account_id, amount, << >>)
            /\ result' = Result("withdraw_from_savings", "TypeError", account_id, amount)
       ELSE IF InsufficientBalance(committed.savings_accounts[account_id], amount)
       THEN /\ Returns(c, "raised", "withdraw_from_savings", account_id, amount,
                       committed.savings_accounts[account_id])
            /\ result' = Result("withdraw_from_savings", "ValueError: Insufficient balance",
                                account_id, amount)
       ELSE /\ Returns(c, "selected", "withdraw_from_savings", account_id, amount,
                       committed.savings_accounts[account_id])
            /\ UNCHANGED result

\* withdraw_from_savings from its UPDATE to the INSERT INTO transactions
WithdrawWrite(c) ==
  /\ connections[c].pc = "selected"
  /\ connections[c].op = "withdraw_from_savings"
  /\ ~LockedByOther(c)
  /\ UNCHANGED <<loans, loan_repayments, registry, committed, failed_writes, clock,
                 window, fetched, result>>
  /\ LET account == connections[c].row
         amount == connections[c].amount
     IN  /\ savings_accounts' = [savings_accounts EXCEPT
              ![account.account_id] = WithdrawUpdate(@, amount)]
         /\ record_transaction(account.member_id, "Savings Withdrawal", "Savings",
                               str(account.account_id), amount, FALSE)
         /\ Returns(c, "written", "withdraw_from_savings", account.account_id, amount,
                    account)

\* the first write statement of a call finds the file locked for longer than
\* the timeout: OperationalError, nothing was written
WriteTimesOut(c) ==
  /\ connections[c].pc = "selected"
  /\ LockedByOther(c)
  /\ UNCHANGED <<ledger, registry, committed, failed_writes, clock, window, fetched>>
  /\ Returns(c, "raised", connections[c].op, connections[c].id, connections[c].amount,
             connections[c].row)
  /\ result' = Result(connections[c].op, "OperationalError", connections[c].id,
                      connections[c].amount)

\* self.commit() and the return of the call
CommitAndReturn(c) ==
  /\ connections[c].pc = "written"
  /\ UNCHANGED <<ledger, registry, clock, window, fetched>>
  /\ commit
  /\ Returns(c, "returned", connections[c].op, connections[c].id, connections[c].amount,
             connections[c].row)
  /\ result' = Result(connections[c].op, "ok", connections[c].id, connections[c].amount)

RepaymentSelects ==
  \E c \in Connections, loan_id \in LoanIdInputs, amount \in ConcurrentAmounts :
     RepaymentSelect(c, loan_id, amount)

RepaymentWrites == \E c \in Connections : RepaymentWrite(c)

WithdrawSelects ==
  \E c \in Connections, account_id \in 1..(MaxAccounts + 1), amount \in ConcurrentAmounts :
     WithdrawSelect(c, account_id, amount)

WithdrawWrites == \E c \in Connections : WithdrawWrite(c)

WriteTimesOuts == \E c \in Connections : WriteTimesOut(c)

CommitAndReturns == \E c \in Connections : CommitAndReturn(c)

\* a database with a loan of 100.00 disbursed to NFC0001 and a savings
\* account of NFC0001 holding a deposit of 100.00
InitShared ==
  /\ members = <<[member_id |-> MemberId(1), station_id |-> StationId(1)],
                 [member_id |-> MemberId(2), station_id |-> StationId(2)]>>
  /\ stations = {StationId(1), StationId(2)}
  /\ system_settings = [k \in {"next_member_number", "next_station_number"} |-> str(3)]
  /\ savings_accounts = <<DepositUpdate(NewSavingsAccount(1, MemberId(1), 1), 100 * Kobo)>>
  /\ loans = <<NewLoan(1, MemberId(1), 100 * Kobo, 10, 1, 0)>>
  /\ loan_repayments = << >>
  /\ transactions =
       <<TransactionRow(1, MemberId(1), "Savings Deposit", "Savings", str(1),
                        100 * Kobo, TRUE),
         TransactionRow(2, MemberId(1), "Loan Disbursement", "Loan", str(1),
                        100 * Kobo, TRUE)>>
  /\ committed = Tables
  /\ failed_writes = 0
  /\ result = Result("connect", "ok", 0, 0)
  /\ clock = 0
  /\ current_module = "dashboard"
  /\ station_rows = populate_table(stations, members)
  /\ fetched = NothingFetched
  /\ connections = NoCalls

NextShared ==
  \/ RepaymentSelects
  \/ RepaymentWrites
  \/ WithdrawSelects
  \/ WithdrawWrites
  \/ WriteTimesOuts
  \/ CommitAndReturns

SpecShared == InitShared /\ [][NextShared]_vars

-----------------------------------------------------------------------------
(* Properties of the loan ledger (SpecLoans) *)

LoanIds == 1..Len(loans)

RECURSIVE ExcessPaid(_, _)
\* what the repayments of a loan paid beyond the balance outstanding at their time
ExcessPaid(rows, loan_id) ==
  IF rows = << >> THEN 0
  ELSE LET r == Head(rows)
       IN  (IF r.loan_id = loan_id
              THEN Max(0, r.actual_amount - r.balance_before) ELSE 0)
           + ExcessPaid(Tail(rows), loan_id)

\* C1, as claimed: amount_paid + balance_outstanding = total_amount for every
\* loan, after disbursement and after every repayment, overpayments included.
C1_PaidPlusBalanceIsTotal ==
  \A i \in LoanIds :
     loans[i].amount_paid + loans[i].balance_outstanding = loans[i].total_amount

\* C1, amended: amount_paid + balance_outstanding = total_amount plus the sum,
\* over the loan's repayments, of the part of each payment that exceeded the
\* balance outstanding when it was made (so the two sides of the claimed
\* equation agree exactly as long as no repayment overpaid).
C1_PaidPlusBalanceIsTotalPlusExcess ==
  \A i \in LoanIds :
     loans[i].amount_paid + loans[i].balance_outstanding
        = loans[i].total_amount + ExcessPaid(loan_repayments, i)

\* a loan that has been overpaid: the balance is floored at 0, the payment counted in full
C1_Witness ==
  \E i \in LoanIds :
     /\ ExcessPaid(loan_repayments, i) > 0
     /\ loans[i].balance_outstanding = 0
     /\ loans[i].amount_paid > loans[i].total_amount

\* C5: a successful record_loan_repayment(amount) on a loan with outstanding
\* balance b leaves balance_outstanding = max(0, b - amount), adds the full
\* amount to amount_paid and sets status to Completed when the new balance is
\* <= 0 and to Active otherwise; an amount above b is accepted and leaves the
\* balance at exactly 0 with status Completed.
C5_RepaymentEffect ==
  [][(result'.op = "record_loan_repayment" /\ result'.outcome = "ok") =>
       LET before == loans[result'.id]
           after == loans'[result'.id]
           b == before.balance_outstanding
           x == result'.amount
       IN  /\ after.balance_outstanding = (IF b - x > 0 THEN b - x ELSE 0)
           /\ after.amount_paid = before.amount_paid + x
           /\ after.status = (IF after.balance_outstanding <= 0
                                THEN "Completed" ELSE "Active")
           /\ (x > b => after.balance_outstanding = 0 /\ after.status = "Completed")
    ]_vars

\* an overpayment has just been accepted
C5_Witness ==
  /\ result.op = "record_loan_repayment"
  /\ result.outcome = "ok"
  /\ loan_repayments # << >>
  /\ LET r == loan_repayments[Len(loan_repayments)]
     IN  /\ r.loan_id = result.id
         /\ r.actual_amount = result.amount
         /\ r.actual_amount > r.balance_before
         /\ r.balance_before > 0
  /\ loans[result.id].status = "Completed"

\* C6, as claimed: for every loan, in every state, status is Completed if and
\* only if balance_outstanding is 0.
C6_CompletedIffZeroBalance ==
  \A i \in LoanIds :
     (loans[i].status = "Completed") <=> (loans[i].balance_outstanding = 0)

\* C7, as claimed: a loan that is Completed stays Completed in the next state,
\* whatever call is made.
C7_CompletedIsFinal ==
  [][\A i \in LoanIds :
        loans[i].status = "Completed" => loans'[i].status = "Completed"]_vars

\* the loan disburse_loan has just created, when it has
JustDisbursed == result.op = "disburse_loan" /\ result.outcome = "ok"

\* C8, as claimed: right after disburse_loan the loan has interest_amount =
\* principal * rate / 100 rounded to 2 decimals, total_amount = principal +
\* interest_amount, monthly_installment = total_amount / duration,
\* balance_outstanding = total_amount, amount_paid = 0 and status Active.
C8_DisbursedRounded ==
  JustDisbursed =>
    LET l == loans[result.id]
    IN  /\ l.principal_amount = result.amount
        /\ l.interest_amount = Round2((l.principal_amount * l.interest_rate) \div Percent)
        /\ l.total_amount = l.principal_amount + l.interest_amount
        /\ l.monthly_installment * l.duration_months = l.total_amount
        /\ l.balance_outstanding = l.total_amount
        /\ l.amount_paid = 0
        /\ l.status = "Active"

\* C8, amended: right after disburse_loan the loan has interest_amount =
\* principal * rate / 100 exactly, with no rounding; the rest is as claimed.
C8_DisbursedExact ==
  JustDisbursed =>
    LET l == loans[result.id]
    IN  /\ l.principal_amount = result.amount
        /\ l.interest_amount * Percent = l.principal_amount * l.interest_rate
        /\ l.total_amount = l.principal_amount + l.interest_amount
        /\ l.monthly_installment * l.duration_months = l.total_amount
        /\ l.balance_outstanding = l.total_amount
        /\ l.amount_paid = 0
        /\ l.status = "Active"

\* a loan has just been disbursed whose interest is not a whole number of kobo
C8_Witness ==
  /\ JustDisbursed
  /\ loans[result.id].interest_amount # Round2(loans[result.id].interest_amount)
  /\ loans[result.id].duration_months > 1

\* C12, as claimed: in every state each loan has balance_outstanding =
\* max(0, total_amount - amount_paid), and no step lowers a loan's amount_paid.
C12_BalanceFromPaidAndPaidMonotone ==
  [][\A i \in 1..Len(loans') :
        /\ loans'[i].balance_outstanding
             = Max(0, loans'[i].total_amount - loans'[i].amount_paid)
        /\ i \in LoanIds => loans'[i].amount_paid >= loans[i].amount_paid]_vars

\* C14, as claimed: record_loan_repayment with amount <= 0 ends in an error and
\* leaves the loans, loan_repayments and transactions tables as they were.
C14_NonPositiveRepaymentRejected ==
  [][(result'.op = "record_loan_repayment" /\ result'.amount <= 0) =>
       /\ result'.outcome # "ok"
       /\ loans' = loans
       /\ loan_repayments' = loan_repayments
       /\ transactions' = transactions]_vars

\* loan_types.max_duration_months of the loan type the requests name
MaxDurationMonths == 1

\* C15, as claimed: a disburse_loan request with principal <= 0, duration <= 0
\* or duration above the loan type's max_duration_months creates no loans row
\* and no transactions row.
C15_InvalidDisbursementRejected ==
  [][(/\ result'.op = "disburse_loan"
      /\ \/ Len(loans') # Len(loans)
         \/ Len(transactions') # Len(transactions)) =>
       /\ Len(loans') = Len(loans) + 1
       /\ LET l == loans'[Len(loans')]
          IN  /\ l.principal_amount > 0
              /\ l.duration_months > 0
              /\ l.duration_months <= MaxDurationMonths]_vars

\* C16, as claimed: every disburse_loan call that gets as far as numbering the
\* loan creates a loan whose loan_number differs from the number of every loan
\* already there, a second call for the same member within the same clock
\* second included.
C16_LoanNumbersNeverCollide ==
  [][(result'.op = "disburse_loan" /\ result'.outcome # "ZeroDivisionError") =>
       /\ Len(loans') = Len(loans) + 1
       /\ \A i \in 1..Len(loans) :
             loans[i].loan_number # loans'[Len(loans')].loan_number]_vars

\* the loan_repayments rows of a loan, in insertion order
RepaymentsOf(loan_id) == SelectSeq(loan_repayments, LAMBDA r : r.loan_id = loan_id)

\* C21: a record_loan_repayment call that follows a successful call with the
\* same amount on the same loan is applied as well: it adds one more
\* loan_repayments row, with an id no earlier row has, and lowers the
\* outstanding balance by the amount once more, down to a floor of 0.
C21_EqualRepaymentsBothApplied ==
  [][(/\ result.op = "record_loan_repayment" /\ result.outcome = "ok"
      /\ result'.op = "record_loan_repayment" /\ result'.outcome = "ok"
      /\ result'.id = result.id /\ result'.amount = result.amount) =>
       /\ Len(loan_repayments') = Len(loan_repayments) + 1
       /\ SubSeq(loan_repayments', 1, Len(loan_repayments)) = loan_repayments
       /\ \A i \in 1..Len(loan_repayments) :
             loan_repayments[i].repayment_id
               # loan_repayments'[Len(loan_repayments')].repayment_id
       /\ loan_repayments'[Len(loan_repayments')].actual_amount = result.amount
       /\ loans'[result.id].balance_outstanding
            = Max(0, loans[result.id].balance_outstanding - result.amount)]_vars

\* two repayments of 0.55 were applied one after the other to one loan, the
\* first leaving a balance, the second lowering it again
C21_Witness ==
  /\ result.op = "record_loan_repayment" /\ result.outcome = "ok"
  /\ result.amount > 0
  /\ LET rows == RepaymentsOf(result.id)
     IN  /\ Len(rows) >= 2
         /\ rows[Len(rows)].actual_amount = rows[Len(rows) - 1].actual_amount
         /\ rows[Len(rows) - 1].balance_after > 0
         /\ rows[Len(rows)].balance_after < rows[Len(rows) - 1].balance_after

\* C27: the loan_repayments rows of every loan form a chain in insertion
\* order: the first row's balance_before is the loan's total_amount, each later
\* row's balance_before is the row before's balance_after, and the last row's
\* balance_after is the loan's balance_outstanding.
C27_RepaymentsFormChain ==
  \A l \in LoanIds :
     LET rows == RepaymentsOf(l)
     IN  Len(rows) > 0 =>
           /\ rows[1].balance_before = loans[l].total_amount
           /\ \A i \in 2..Len(rows) : rows[i].balance_before = rows[i - 1].balance_after
           /\ rows[Len(rows)].balance_after = loans[l].balance_outstanding

\* a loan with two repayments, the first of which left a balance
C27_Witness ==
  \E l \in LoanIds :
     /\ Len(RepaymentsOf(l)) = 2
     /\ RepaymentsOf(l)[1].balance_after > 0
     /\ RepaymentsOf(l)[1].balance_after < loans[l].total_amount

\* the columns of loans that are fixed at disbursement
LoanTerms(loan) ==
  [principal_amount |-> loan.principal_amount, interest_rate |-> loan.interest_rate,
   interest_amount |-> loan.interest_amount, total_amount |-> loan.total_amount,
   monthly_installment |-> loan.monthly_installment,
   duration_months |-> loan.duration_months]

-----------------------------------------------------------------------------
(* Properties of the savings ledger (SpecSavings) *)

AccountIds == 1..Len(savings_accounts)

\* C2, as claimed: whatever create, deposit and withdraw calls have completed
\* without error, every savings account has current_balance >= 0.
C2_BalanceNeverNegative ==
  failed_writes = 0 =>
    \A i \in AccountIds : savings_accounts[i].current_balance >= 0

\* C3: withdraw_from_savings on an existing account with amount <=
\* current_balance lowers current_balance and raises total_withdrawals by
\* exactly amount; with amount > current_balance it fails with the
\* insufficient-balance error, leaves the account row as it was and appends no
\* transactions row.
C3_WithdrawEffect ==
  [][(result'.op = "withdraw_from_savings" /\ result'.id \in AccountIds) =>
       LET before == savings_accounts[result'.id]
           after == savings_accounts'[result'.id]
           x == result'.amount
       IN  IF x <= before.current_balance
             THEN /\ after.current_balance = before.current_balance - x
                  /\ after.total_withdrawals = before.total_withdrawals + x
             ELSE /\ result'.outcome = "ValueError: Insufficient balance"
                  /\ after = before
                  /\ transactions' = transactions
    ]_vars

\* a withdrawal of the whole balance has just gone through
C3_Witness ==
  /\ result.op = "withdraw_from_savings"
  /\ result.outcome = "ok"
  /\ result.amount > 0
  /\ result.id \in AccountIds
  /\ savings_accounts[result.id].current_balance = 0
  /\ savings_accounts[result.id].total_withdrawals = result.amount

\* C4: deposit_to_savings with amount > 0 on an existing account raises its
\* current_balance and its total_deposits by exactly amount and leaves its
\* total_withdrawals and total_interest_earned as they were.
C4_DepositEffect ==
  [][(/\ result'.op = "deposit_to_savings"
      /\ result'.id \in AccountIds
      /\ result'.amount > 0) =>
       LET before == savings_accounts[result'.id]
           after == savings_accounts'[result'.id]
           x == result'.amount
       IN  /\ after.current_balance = before.current_balance + x
           /\ after.total_deposits = before.total_deposits + x
           /\ after.total_withdrawals = before.total_withdrawals
           /\ after.total_interest_earned = before.total_interest_earned
    ]_vars

\* a positive deposit has just been made into an account that already held money
C4_Witness ==
  /\ result.op = "deposit_to_savings"
  /\ result.outcome = "ok"
  /\ result.amount > 0
  /\ result.id \in AccountIds
  /\ savings_accounts[result.id].current_balance > result.amount
  /\ savings_accounts[result.id].total_deposits > result.amount

\* C11: every savings account, in every state reached from accounts created
\* with zero balances by deposits and withdrawals, has current_balance =
\* total_deposits - total_withdrawals + total_interest_earned.
C11_BalanceIsDepositsLessWithdrawals ==
  \A i \in AccountIds :
     savings_accounts[i].current_balance
        = savings_accounts[i].total_deposits - savings_accounts[i].total_withdrawals
          + savings_accounts[i].total_interest_earned

\* an account that has seen a deposit and a withdrawal and still holds money
C11_Witness ==
  \E i \in AccountIds :
     /\ savings_accounts[i].total_deposits > 0
     /\ savings_accounts[i].total_withdrawals > 0
     /\ savings_accounts[i].current_balance > 0

\* C13, as claimed: deposit_to_savings and withdraw_from_savings with amount
\* <= 0 end in an error and leave the account rows and the transactions table
\* as they were.
C13_NonPositiveAmountRejected ==
  [][(/\ result'.op \in {"deposit_to_savings", "withdraw_from_savings"}
      /\ result'.amount <= 0) =>
       /\ result'.outcome # "ok"
       /\ savings_accounts' = savings_accounts
       /\ transactions' = transactions]_vars

-----------------------------------------------------------------------------
(* Properties of the whole ledger (Spec) *)

LedgerOps == {"deposit_to_savings", "withdraw_from_savings",
              "disburse_loan", "record_loan_repayment"}

\* C9: every successful deposit_to_savings, withdraw_from_savings,
\* disburse_loan and record_loan_repayment appends exactly one transactions
\* row; its is_credit is 1 for a deposit and a disbursement and 0 for a
\* withdrawal and a repayment, and its amount is the amount deposited,
\* withdrawn or repaid, or the principal disbursed.
C9_OneTransactionPerOperation ==
  [][(result'.op \in LedgerOps /\ result'.outcome = "ok") =>
       /\ Len(transactions') = Len(transactions) + 1
       /\ SubSeq(transactions', 1, Len(transactions)) = transactions
       /\ LET t == transactions'[Len(transactions')]
          IN  /\ t.is_credit = (IF result'.op \in {"deposit_to_savings", "disburse_loan"}
                                  THEN 1 ELSE 0)
              /\ t.amount = result'.amount
              /\ t.account_id = str(result'.id)
    ]_vars

\* a deposit, a disbursement and a repayment have each left their row
C9_Witness ==
  /\ result.op = "record_loan_repayment"
  /\ result.outcome = "ok"
  /\ \E i, j, k \in 1..Len(transactions) :
        /\ transactions[i].transaction_type = "Savings Deposit"
        /\ transactions[i].is_credit = 1
        /\ transactions[j].transaction_type = "Loan Disbursement"
        /\ transactions[j].is_credit = 1
        /\ transactions[k].transaction_type = "Loan Repayment"
        /\ transactions[k].is_credit = 0

\* C10, as claimed: the writes of a call that failed are never persisted; when
\* a later call commits, the connection holds no uncommitted write left behind
\* by an earlier call, so what becomes durable is that call's own writes only.
C10_FailedWritesNeverCommitted ==
  [][committed' # committed => Tables = committed]_vars

\* C19: deposit_to_savings or withdraw_from_savings on an account_id that does
\* not exist, and record_loan_repayment on a loan_id that does not exist, raise
\* and leave savings_accounts, loans, loan_repayments and transactions as they
\* were.
C19_UnknownIdFailsWithoutWrite ==
  [][(\/ /\ result'.op \in {"deposit_to_savings", "withdraw_from_savings"}
         /\ result'.id \notin AccountIds
      \/ /\ result'.op = "record_loan_repayment"
         /\ result'.id \notin LoanIds) =>
       /\ result'.outcome # "ok"
       /\ TablesNext = Tables]_vars

\* a repayment on an unknown loan id was refused while another loan exists
C19_Witness ==
  /\ result.op = "record_loan_repayment"
  /\ result.id \notin LoanIds
  /\ result.outcome = "ValueError: Loan not found"
  /\ Len(loans) > 0

\* C22: no step changes or removes a transactions row that is there: the
\* table after the step starts with the table before it.
C22_TransactionsAppendOnly ==
  [][/\ Len(transactions') >= Len(transactions)
     /\ SubSeq(transactions', 1, Len(transactions)) = transactions]_vars

\* three rows have been appended
C22_Witness == Len(transactions) = 3

-----------------------------------------------------------------------------
(* Properties of the member and station registry (SpecRegistry) *)

\* the number in a member ID: the digits after "NFC"
MemberNumber(member_id) == int(SubSeq(member_id, 4, Len(member_id)))

\* next_member_number is there and greater than the number of every member ID
CounterAhead ==
  /\ "next_member_number" \in DOMAIN system_settings
  /\ \A i \in 1..Len(members) :
        MemberNumber(members[i].member_id) < int(system_settings["next_member_number"])

\* C17: from a state where next_member_number is greater than the number of
\* every existing member ID, a successful add_member inserts one member whose
\* ID is the counter value formatted, different from every ID already there,
\* writes the counter plus exactly 1, makes both durable in the same commit and
\* leaves the counter ahead again; a failed add_member changes neither the
\* members nor the counter.
C17_SequentialMemberIdsDistinct ==
  [][(CounterAhead /\ result'.op = "add_member") =>
       IF result'.outcome = "ok"
         THEN /\ Len(members') = Len(members) + 1
              /\ SubSeq(members', 1, Len(members)) = members
              /\ members'[Len(members')].member_id
                   = MemberId(int(system_settings["next_member_number"]))
              /\ \A i \in 1..Len(members) :
                    members[i].member_id # members'[Len(members')].member_id
              /\ int(system_settings'["next_member_number"])
                   = int(system_settings["next_member_number"]) + 1
              /\ committed'.members = members'
              /\ committed'.system_settings = system_settings'
              /\ CounterAhead'
         ELSE /\ members' = members
              /\ system_settings' = system_settings]_vars

\* two members were added one after the other, the counter ahead throughout
C17_Witness ==
  /\ result.op = "add_member"
  /\ result.outcome = "ok"
  /\ Len(members) = 4
  /\ CounterAhead
  /\ \A i, j \in 1..Len(members) :
        i # j => members[i].member_id # members[j].member_id

\* C18: with the next_member_number row missing add_member raises and inserts
\* no member; with the next_station_number row missing add_station raises and
\* inserts no station; neither writes a settings row.
C18_MissingCounterFailsWithoutDefault ==
  [][/\ (/\ result'.op = "add_member"
         /\ "next_member_number" \notin DOMAIN system_settings) =>
          /\ result'.outcome = "TypeError"
          /\ members' = members
          /\ system_settings' = system_settings
     /\ (/\ result'.op = "add_station"
         /\ "next_station_number" \notin DOMAIN system_settings) =>
          /\ result'.outcome = "TypeError"
          /\ stations' = stations
          /\ system_settings' = system_settings]_vars

\* add_member has just failed on a database without the next_member_number row
C18_Witness ==
  /\ result.op = "add_member"
  /\ result.outcome = "TypeError"
  /\ "next_member_number" \notin DOMAIN system_settings

\* the member rows that reference a station
MembersOf(station) == {i \in 1..Len(members) : members[i].station_id = station}

\* C20: whatever members are added and whenever the Stations screen is
\* refreshed, a step removes a station row only if no member row references
\* that station at that moment.
C20_StationWithMembersNeverDeleted ==
  [][\A station \in stations :
        station \notin stations' => MembersOf(station) = {}]_vars

\* a station has just been deleted, after members were added, while another
\* station's Delete button was refused
C20_Witness ==
  /\ result.op = "delete_station"
  /\ result.outcome = "ok"
  /\ result.id \notin stations
  /\ Len(members) > 2

-----------------------------------------------------------------------------
(* Properties of get_transactions (SpecQuery) *)

\* the rows of the log, as a set
LogRows == {transactions[i] : i \in 1..Len(transactions)}

\* the returned list holds each row once, latest transaction_date first and,
\* within a date, highest transaction_id first
FetchedInOrder ==
  /\ \A i, j \in 1..Len(fetched.rows) : i < j => fetched.rows[i] # fetched.rows[j]
  /\ \A i \in 1..(Len(fetched.rows) - 1) :
        \/ fetched.rows[i].transaction_date > fetched.rows[i + 1].transaction_date
        \/ /\ fetched.rows[i].transaction_date = fetched.rows[i + 1].transaction_date
           /\ fetched.rows[i].transaction_id > fetched.rows[i + 1].transaction_id

\* C23, as claimed: get_transactions returns exactly the rows that satisfy
\* every filter that was supplied (every argument that is not None), in the
\* order transaction_date descending, transaction_id descending.
C23_ReturnsRowsOfSuppliedFilters ==
  result.op = "get_transactions" =>
    /\ {fetched.rows[i] : i \in 1..Len(fetched.rows)} =
         {r \in LogRows :
            /\ fetched.member_id # None => r.member_id = fetched.member_id[1]
            /\ fetched.start_date # None => r.transaction_date >= fetched.start_date[1]
            /\ fetched.end_date # None => r.transaction_date <= fetched.end_date[1]}
    /\ FetchedInOrder

\* C23, amended: get_transactions returns exactly the rows that satisfy every
\* filter that is neither None nor the empty text (an empty text is ignored
\* like an omitted argument), in the order transaction_date descending,
\* transaction_id descending.
C23_ReturnsRowsOfNonEmptyFilters ==
  result.op = "get_transactions" =>
    /\ {fetched.rows[i] : i \in 1..Len(fetched.rows)} =
         {r \in LogRows :
            /\ (fetched.member_id # None /\ fetched.member_id[1] # << >>)
                  => r.member_id = fetched.member_id[1]
            /\ (fetched.start_date # None /\ fetched.start_date[1] # 0)
                  => r.transaction_date >= fetched.start_date[1]
            /\ (fetched.end_date # None /\ fetched.end_date[1] # 0)
                  => r.transaction_date <= fetched.end_date[1]}
    /\ FetchedInOrder

\* a call with all three filters returned two rows of a log of three, the
\* earlier inserted row dated later than the other
C23_Witness ==
  /\ result.op = "get_transactions"
  /\ TruthyText(fetched.member_id)
  /\ TruthyDate(fetched.start_date)
  /\ TruthyDate(fetched.end_date)
  /\ Len(transactions) = 3
  /\ Len(fetched.rows) = 2
  /\ fetched.rows[1].transaction_id < fetched.rows[2].transaction_id

-----------------------------------------------------------------------------
(* The transaction log against the account tables (Spec) *)

RECURSIVE SavingsNet(_, _)
\* credits minus debits of the first n transactions rows of a savings account
SavingsNet(account_id, n) ==
  IF n = 0
    THEN 0
    ELSE SavingsNet(account_id, n - 1) +
         (IF /\ transactions[n].account_type = "Savings"
             /\ transactions[n].account_id = str(account_id)
            THEN IF transactions[n].is_credit = 1
                   THEN transactions[n].amount
                   ELSE 0 - transactions[n].amount
            ELSE 0)

RECURSIVE RepaidInLog(_, _)
\* the amounts of the Loan Repayment rows of a loan among the first n rows
RepaidInLog(loan_id, n) ==
  IF n = 0
    THEN 0
    ELSE RepaidInLog(loan_id, n - 1) +
         (IF /\ transactions[n].transaction_type = "Loan Repayment"
             /\ transactions[n].account_id = str(loan_id)
            THEN transactions[n].amount
            ELSE 0)

\* C28: the transaction log reconciles with the account tables: the
\* current_balance of every savings account equals its credit rows minus its
\* debit rows, and the amount_paid of every loan equals the sum of its Loan
\* Repayment rows, in every state a call has returned in without an error.
C28_LogReconcilesWithAccounts ==
  result.outcome = "ok" =>
    /\ \A i \in 1..Len(savings_accounts) :
          savings_accounts[i].current_balance =
            SavingsNet(savings_accounts[i].account_id, Len(transactions))
    /\ \A i \in 1..Len(loans) :
          loans[i].amount_paid = RepaidInLog(loans[i].loan_id, Len(transactions))

-----------------------------------------------------------------------------
(* Durability of the screens' writes (SpecRegistry) *)

\* C26: every operation that changes a table and reports success has committed
\* all of its writes when it returns: the durable state is then the state the
\* connection sees, so closing the connection loses nothing.
C26_SuccessfulWriteIsCommitted ==
  [][(result'.outcome = "ok" /\ Tables' # Tables) => committed' = Tables']_vars

-----------------------------------------------------------------------------
(* Properties of the migrated database (SpecMigration) *)

\* the number after the three-letter prefix of a member ID
NumericSuffix(member_id) == int(SubSeq(member_id, 4, Len(member_id)))

\* n is one more than the largest of the numbers, 1 when there are none
OneAboveLargest(n, numbers) ==
  /\ \A k \in numbers : k < n
  /\ n = 1 \/ (n - 1) \in numbers

\* C30: after update_system_settings next_member_number is the largest
\* numeric suffix of the migrated member IDs plus 1 and next_station_number is
\* the largest migrated station number plus 1 (1 when there are none), and no
\* add_member or add_station after it, the first one included, collides with
\* an ID that is there.
C30_CountersResyncedAfterMigration ==
  [][/\ result'.op = "update_system_settings" =>
          /\ OneAboveLargest(int(system_settings'["next_member_number"]),
               {NumericSuffix(members'[i].member_id) : i \in 1..Len(members')})
          /\ OneAboveLargest(int(system_settings'["next_station_number"]),
               {int(id) : id \in stations'})
     /\ result'.op \in {"add_member", "add_station"}
          => result'.outcome # "IntegrityError"]_vars

\* members NFC0001 and NFC0003 were migrated and the first add_member made NFC0004
C30_Witness ==
  /\ result.op = "add_member"
  /\ result.outcome = "ok"
  /\ result.id = MemberId(4)
  /\ Len(members) = 3
  /\ members[1].member_id = MemberId(1)
  /\ members[2].member_id = MemberId(3)
  /\ committed.system_settings["next_member_number"] = str(5)
  /\ stations = {StationId(1), <<"3">>, StationId(4)}

-----------------------------------------------------------------------------
(* Properties of two connections (SpecShared) *)

\* both connections are in, or have returned from, a call of op on the same
\* row, and their SELECTs returned the same row: both read before either wrote
BothSelectedBeforeEitherWrote(op) ==
  /\ \A c \in Connections :
        /\ connections[c].op = op
        /\ connections[c].pc \in {"selected", "written", "returned"}
  /\ connections["a"].id = connections["b"].id
  /\ connections["a"].row = connections["b"].row

\* C24: when two record_loan_repayment calls on the same loan through two
\* connections both read the loan row before either writes, no update is
\* lost: once both have returned, amount_paid is the amount_paid they read
\* plus both amounts, and balance_outstanding is the balance they read less
\* both amounts, not below 0.
C24_NoRepaymentLost ==
  (/\ BothSelectedBeforeEitherWrote("record_loan_repayment")
   /\ \A c \in Connections : connections[c].pc = "returned")
  => LET loan == connections["a"].row
         paid == connections["a"].amount + connections["b"].amount
     IN  /\ committed.loans[loan.loan_id].amount_paid = loan.amount_paid + paid
         /\ committed.loans[loan.loan_id].balance_outstanding =
              Max(0, loan.balance_outstanding - paid)

\* C25: when two withdraw_from_savings calls on the same account through two
\* connections both pass the balance check before either updates,
\* current_balance never becomes negative.
C25_BalanceNeverNegativeUnderTwoWithdrawals ==
  BothSelectedBeforeEitherWrote("withdraw_from_savings")
  => /\ savings_accounts[connections["a"].id].current_balance >= 0
     /\ committed.savings_accounts[connections["a"].id].current_balance >= 0

====
